---- MODULE Spec2Model ----
(***************************************************************************)
(* Model of package retry (retry/retry.go): Transport.RoundTrip, the retry *)
(* loop around a base http.RoundTripper, driven by a value copy of a       *)
(* backoff.ExponentialBackOff, a ShouldRetry predicate and the request's   *)
(* context.                                                                *)
(*                                                                         *)
(* Time is a discrete clock `now`.  Each RoundTrip call is a process whose *)
(* position `pc` walks the lines of the loop; the base transport, the     *)
(* clock, the runtime timer and the owner of the context are the           *)
(* environment.                                                            *)
(***************************************************************************)
EXTENDS Integers, FiniteSets, Sequences, TLC

\* ------------------------------------------------------------- bounds
\* the clock stops advancing at MaxTime unless an armed timer still waits
MaxTime == 3
\* cap on the attempts of one call (a custom predicate may retry for ever)
MaxAttempts == 5
\* the policy's elapsed-time budget, in clock units (Example: time.Second)
MaxElapsedTime == 2

\* ---------------------------------------------------------- constants
\* backoff.Stop: the duration NextBackOff returns when the budget is spent
Stop == -1

\* the goroutines that may call RoundTrip on the one Transport value
Calls == {1, 2}

\* addresses of ExponentialBackOff values: 0 is *t.Backoff, i is the local
\* variable `copy` of call i
Shared == 0
Addrs == {Shared} \cup Calls

\* error values: nil, an error of the base transport, an error made by a
\* custom predicate, and req.Context().Err()
Nil == "nil"
TransportErr == "transport error"
PredicateErr == "predicate error"
Canceled == "context canceled"
Errors == {Nil, TransportErr}
\* errors json.Transport makes: of ioutil.ReadAll and of json.Unmarshal
ReadErr == "read error"
DecodingErr == "decoding error"

\* *http.Response values: nil or a response with a status code
NoResponse == "nil"
Responses == {NoResponse, "200", "500"}
\* responses of a JSON server: Content-Type application/json with a body
\* that decodes, that does not decode, or that cannot be read to its end
JSONResponses == {"200 json", "200 bad json", "200 cut json"}

\* variant: the error of json.Unmarshal is not returned
JSONHidesDecodingErr(r, e) ==
    IF e = Nil /\ r = "200 cut json" THEN <<r, ReadErr>> ELSE <<r, e>>

\* the Content-Type of the response parses to application/json
IsJSON(r) == r \in JSONResponses

\* json.Transport.RoundTrip: what it makes of the (r, e) of its base
JSONRoundTrip(r, e) ==
    IF e # Nil THEN <<r, e>>
    ELSE IF ~IsJSON(r) THEN <<r, Nil>>
    ELSE IF r = "200 cut json" THEN <<r, ReadErr>>
    ELSE <<r, IF r = "200 bad json" THEN DecodingErr ELSE Nil>>

\* what a server that answers JSON gives an http.RoundTripper
ServerResults ==
    {<<NoResponse, TransportErr>>, <<"200", Nil>>} \cup (JSONResponses \X {Nil})

\* what t.Transport.RoundTrip may return.  "failing" is a base transport
\* whose every call fails (the Example's unresolvable URL); "any" is an
\* arbitrary http.RoundTripper, which may also return a response and an
\* error together; "server" is a transport to a JSON server; "json" is a
\* json.Transport over such a transport.
TransportResults(base) ==
    CASE base = "failing" -> {<<NoResponse, TransportErr>>}
      [] base = "server"  -> ServerResults
      [] base = "json"    -> {JSONRoundTrip(p[1], p[2]) : p \in ServerResults}
      [] OTHER            -> Responses \X Errors

\* t.ShouldRetry: nil (the default is used), or a custom function.  "any"
\* stands for an arbitrary custom function: every result it could give.
\* "status5xx" retries a 5xx response, "replace" reports an error of its
\* own, "always" asks to retry on every attempt.
Predicates == {"nil", "any", "status5xx", "replace", "always"}

\* rand.Float64() in getRandomValueFromInterval, as the low end, the middle
\* and the high end of [0, 1)
Randoms == {0, 1, 2}

\* ------------------------------------------------------------- state
VARIABLES
    callers,    \* the goroutines that use the Transport in this run
    Transport,  \* t.Transport: the kind of base transport
    outer,      \* the transport that wraps t: "json" (json.Transport) or "none"
    now,        \* the clock (Clock.Now(), and the runtime's timers)
    mem,        \* Addrs -> ExponentialBackOff value stored there
    ShouldRetry,\* t.ShouldRetry
    pc,         \* position of each call
    b,          \* local b of each call: the address it steps
    ctxDone,    \* req.Context().Done() is closed
    res, err,   \* the last attempt's result
    delay,      \* local delay
    timer,      \* local t: [when, fired], or NoTimer
    ret,        \* what RoundTrip returned: <<response, error>>
    out,        \* what the outermost transport returned to the client
    predArgs,   \* the arguments of the last shouldRetry call
    attempts,   \* base-transport calls started by the call
    completed,  \* base-transport calls that returned
    allFailed,  \* every one of them returned an error
    predCalls,  \* shouldRetry calls of the call
    delays,     \* non-Stop results of NextBackOff in the call
    timers      \* timers the call armed

vars == <<callers, Transport, outer, now, mem, ShouldRetry, pc, b, ctxDone, res, err,
          delay, timer, ret, out, predArgs,
          attempts, completed, allFailed, predCalls, delays, timers>>

cfg == <<callers, Transport, outer, ShouldRetry>>
loc == <<res, err, delay, timer, ret, out, predArgs>>
hist == <<attempts, completed, allFailed, predCalls, delays, timers>>

NoTimer == [when |-> -1, set |-> -1, fired |-> FALSE, armed |-> FALSE]
NoRet == <<NoResponse, "none">>
NoArgs == <<NoResponse, Nil, FALSE>>

\* --------------------------------------------- backoff.ExponentialBackOff
\* backoff.NewExponentialBackOff(): the defaults, then Reset(), which sets
\* currentInterval to InitialInterval and startTime to the clock.  The
\* intervals are the library's defaults scaled to clock units; the fields
\* RandomizationFactor (1/2) and Clock (the system clock) never change and
\* are part of getRandomValueFromInterval and of `now`.
NewExponentialBackOff(clock) ==
    [InitialInterval |-> 1, Multiplier |-> 2, MaxInterval |-> 4,
     MaxElapsedTime |-> 0, currentInterval |-> 1, startTime |-> clock]

\* GetElapsedTime: Clock.Now().Sub(startTime)
GetElapsedTime(bo, clock) == clock - bo.startTime

\* getRandomValueFromInterval with RandomizationFactor 1/2
getRandomValueFromInterval(rnd, currentInterval) ==
    LET delta == currentInterval \div 2
    IN  CASE rnd = 0 -> currentInterval - delta
          [] rnd = 1 -> currentInterval
          [] OTHER   -> currentInterval + delta

\* incrementCurrentInterval
incrementCurrentInterval(bo) ==
    IF bo.currentInterval * bo.Multiplier >= bo.MaxInterval
    THEN [bo EXCEPT !.currentInterval = bo.MaxInterval]
    ELSE [bo EXCEPT !.currentInterval = bo.currentInterval * bo.Multiplier]

\* NextBackOff: <<the duration returned, the value afterwards>>
NextBackOff(bo, clock, rnd) ==
    IF bo.MaxElapsedTime # 0 /\ GetElapsedTime(bo, clock) > bo.MaxElapsedTime
    THEN <<Stop, bo>>
    ELSE <<getRandomValueFromInterval(rnd, bo.currentInterval),
           incrementCurrentInterval(bo)>>

\* --------------------------------------------------------- predicates
\* variants of the default predicate: one that never retries, one that
\* retries a success too, one that forgets lastAttempt, one that retries 5xx
DefaultNeverRetries(r, e, lastAttempt) == <<e, FALSE>>
DefaultRetriesSuccess(r, e, lastAttempt) == <<e, ~lastAttempt>>
DefaultIgnoresLastAttempt(r, e, lastAttempt) == <<e, e # Nil>>
DefaultRetries5xx(r, e, lastAttempt) == <<e, (e # Nil \/ r = "500") /\ ~lastAttempt>>

\* lines 37-39: the default shouldRetry
DefaultShouldRetry(r, e, lastAttempt) == <<e, e # Nil /\ ~lastAttempt>>

\* variant: the 5xx predicate looks at the error, not at the status
Status5xxForgetsStatus(r, e, lastAttempt) == <<e, e # Nil /\ ~lastAttempt>>

\* a custom predicate that retries whenever the status is 5xx and
\* lastAttempt is false, with or without a transport error
Status5xxShouldRetry(r, e, lastAttempt) == <<e, r = "500" /\ ~lastAttempt>>

\* a custom predicate that reports an error of its own for a transport error
ReplaceShouldRetry(r, e, lastAttempt) ==
    <<IF e # Nil THEN PredicateErr ELSE Nil, e # Nil /\ ~lastAttempt>>

\* a custom predicate that asks to retry on every attempt
AlwaysShouldRetry(r, e, lastAttempt) == <<e, TRUE>>

\* lines 37-43 and 49: the results shouldRetry may give
ShouldRetryResults(p, r, e, lastAttempt) ==
    CASE p = "nil"       -> {DefaultShouldRetry(r, e, lastAttempt)}
      [] p = "status5xx" -> {Status5xxShouldRetry(r, e, lastAttempt)}
      [] p = "replace"   -> {ReplaceShouldRetry(r, e, lastAttempt)}
      [] p = "always"    -> {AlwaysShouldRetry(r, e, lastAttempt)}
      [] OTHER           -> {Nil, e, PredicateErr} \X BOOLEAN

\* --------------------------------------------------------------- Init
\* t.Backoff as the Example builds it: NewExponentialBackOff() at clock 0,
\* then r.Backoff.MaxElapsedTime = <the budget>
Configured == [NewExponentialBackOff(0) EXCEPT !.MaxElapsedTime = MaxElapsedTime]

\* The runs explored: one goroutine that uses the Transport for one request
\* after another, with every predicate and every base transport; two
\* goroutines that use it concurrently (each for one request after
\* another), with the default predicate and a failing base transport; and
\* one goroutine with the default predicate and a json.Transport, either
\* wrapping the retry Transport or wrapped by it.
Scenarios ==
    {[callers |-> {1}, ShouldRetry |-> p, Transport |-> "any", outer |-> "none"] :
        p \in Predicates}
    \cup {[callers |-> Calls, ShouldRetry |-> "nil", Transport |-> "failing",
            outer |-> "none"],
          [callers |-> {1}, ShouldRetry |-> "nil", Transport |-> "server",
            outer |-> "json"],
          [callers |-> {1}, ShouldRetry |-> "nil", Transport |-> "json",
            outer |-> "none"]}

Init ==
    /\ \E sc \in Scenarios :
          /\ callers = sc.callers
          /\ ShouldRetry = sc.ShouldRetry
          /\ Transport = sc.Transport
          /\ outer = sc.outer
    /\ now = 0
    /\ mem = [a \in Addrs |-> Configured]
    /\ pc = [i \in Calls |-> "idle"]
    /\ b = [i \in Calls |-> i]
    /\ ctxDone = [i \in Calls |-> FALSE]
    /\ res = [i \in Calls |-> NoResponse]
    /\ err = [i \in Calls |-> Nil]
    /\ delay = [i \in Calls |-> 0]
    /\ timer = [i \in Calls |-> NoTimer]
    /\ ret = [i \in Calls |-> NoRet]
    /\ out = [i \in Calls |-> NoRet]
    /\ predArgs = [i \in Calls |-> NoArgs]
    /\ attempts = [i \in Calls |-> 0]
    /\ completed = [i \in Calls |-> 0]
    /\ allFailed = [i \in Calls |-> TRUE]
    /\ predCalls = [i \in Calls |-> 0]
    /\ delays = [i \in Calls |-> 0]
    /\ timers = [i \in Calls |-> 0]

\* ------------------------------------------------------------ actions
\* variant: b := t.Backoff, every call steps the shared value
SharedAddr(i) == Shared

\* lines 34-35: where `b` points.  copy := *t.Backoff; b := &copy
CopyAddr(i) == i

\* variant: the loop asks the predicate again without a new request
SkipAttempt(i) ==
    /\ attempts' = attempts
    /\ pc' = [pc EXCEPT ![i] = "check"]

\* variant: the request is sent in the background and the loop goes on
StartAttemptAsync(i) ==
    /\ attempts[i] < MaxAttempts
    /\ attempts' = [attempts EXCEPT ![i] = @ + 1]
    /\ pc' = [pc EXCEPT ![i] = "backoff"]

\* line 46: the loop (re)starts with a call of the base transport
StartAttempt(i) ==
    /\ attempts[i] < MaxAttempts
    /\ attempts' = [attempts EXCEPT ![i] = @ + 1]
    /\ pc' = [pc EXCEPT ![i] = "transport"]

\* variant: a context that is done already sends the call to the wait
EntryChecksContext(c) == IF c THEN "select" ELSE "transport"

\* lines 45-46: where a call goes at its entry, the request's context being
\* done already (c) or not: to the first call of the base transport
EntryPc(c) == "transport"

\* what the client gets from the outermost transport when RoundTrip
\* returns pair: json.Transport.RoundTrip lines 259-277 when it wraps t
Outermost(pair) ==
    IF outer = "json" THEN JSONRoundTrip(pair[1], pair[2]) ELSE pair

\* lines 33-46: entry of RoundTrip with a request whose context is
\* cancelled already (c) or not; the copy of the policy, the choice of the
\* predicate, and the first call of the base transport
RoundTrip(i, c) ==
    /\ i \in callers
    /\ pc[i] \in {"idle", "done"}
    /\ b' = [b EXCEPT ![i] = CopyAddr(i)]
    /\ mem' = [mem EXCEPT ![CopyAddr(i)] = mem[Shared]]
    /\ ctxDone' = [ctxDone EXCEPT ![i] = c]
    /\ res' = [res EXCEPT ![i] = NoResponse]
    /\ err' = [err EXCEPT ![i] = Nil]
    /\ delay' = [delay EXCEPT ![i] = 0]
    /\ timer' = [timer EXCEPT ![i] = NoTimer]
    /\ ret' = [ret EXCEPT ![i] = NoRet]
    /\ out' = [out EXCEPT ![i] = NoRet]
    /\ predArgs' = [predArgs EXCEPT ![i] = NoArgs]
    /\ attempts' = [attempts EXCEPT ![i] = 1]
    /\ completed' = [completed EXCEPT ![i] = 0]
    /\ allFailed' = [allFailed EXCEPT ![i] = TRUE]
    /\ predCalls' = [predCalls EXCEPT ![i] = 0]
    /\ delays' = [delays EXCEPT ![i] = 0]
    /\ timers' = [timers EXCEPT ![i] = 0]
    /\ pc' = [pc EXCEPT ![i] = EntryPc(c)]
    /\ UNCHANGED <<cfg, now>>

\* line 46: the base transport returns (r, e)
TransportReturn(i, r, e) ==
    /\ pc[i] = "transport"
    /\ <<r, e>> \in TransportResults(Transport)
    /\ res' = [res EXCEPT ![i] = r]
    /\ err' = [err EXCEPT ![i] = e]
    /\ completed' = [completed EXCEPT ![i] = @ + 1]
    /\ allFailed' = [allFailed EXCEPT ![i] = @ /\ e # Nil]
    /\ pc' = [pc EXCEPT ![i] = "backoff"]
    /\ UNCHANGED <<cfg, now, mem, b, ctxDone, delay, timer, ret, out, predArgs,
                   attempts, predCalls, delays, timers>>

\* line 47: delay := b.NextBackOff()
CallNextBackOff(i, rnd) ==
    /\ pc[i] = "backoff"
    /\ LET n == NextBackOff(mem[b[i]], now, rnd)
       IN  /\ delay' = [delay EXCEPT ![i] = n[1]]
           /\ mem' = [mem EXCEPT ![b[i]] = n[2]]
           /\ delays' = [delays EXCEPT ![i] = IF n[1] # Stop THEN @ + 1 ELSE @]
    /\ pc' = [pc EXCEPT ![i] = "check"]
    /\ UNCHANGED <<cfg, now, b, ctxDone, res, err, timer, ret, out, predArgs,
                   attempts, completed, allFailed, predCalls, timers>>

\* line 48
lastAttempt(i) == delay[i] = Stop

\* variant: the response is not passed on when there is an error
ArgsDropResponse(r, e, d) == <<IF e # Nil THEN NoResponse ELSE r, e, d = Stop>>

\* lines 48-49: the arguments shouldRetry is called with
PredicateArgs(r, e, d) == <<r, e, d = Stop>>

\* variant: the loop also ends on the last attempt
StopsOnLastAttempt(ok, last) == ~ok \/ last

\* line 49: `!ok`, the condition on which RoundTrip returns
Stops(ok, last) == ~ok

\* variant: the transport's error is returned
ReturnTransportErr(r, e, pe) == <<r, e>>

\* line 50: return res, err (the err of the if statement: the predicate's)
ReturnPair(r, e, pe) == <<r, pe>>

\* lines 49-51: the predicate is asked; on !ok RoundTrip returns
CallShouldRetry(i, v) ==
    /\ pc[i] = "check"
    /\ LET a == PredicateArgs(res[i], err[i], delay[i])
       IN  /\ v \in ShouldRetryResults(ShouldRetry, a[1], a[2], a[3])
           /\ predArgs' = [predArgs EXCEPT ![i] = a]
    /\ predCalls' = [predCalls EXCEPT ![i] = @ + 1]
    /\ IF Stops(v[2], lastAttempt(i))
       THEN /\ ret' = [ret EXCEPT ![i] = ReturnPair(res[i], err[i], v[1])]
            /\ out' = [out EXCEPT ![i] = Outermost(ret'[i])]
            /\ pc' = [pc EXCEPT ![i] = "done"]
       ELSE /\ UNCHANGED <<ret, out>>
            /\ pc' = [pc EXCEPT ![i] = "timer"]
    /\ UNCHANGED <<cfg, now, mem, b, ctxDone, res, err, delay, timer,
                   attempts, completed, allFailed, delays, timers>>

\* variant: the timer is armed without the delay
DeadlineNow(clock, d) == clock

\* line 52: when the timer time.NewTimer(d) makes is due
TimerDeadline(clock, d) == clock + d

\* line 52: t := time.NewTimer(delay)
NewTimer(i) ==
    /\ pc[i] = "timer"
    /\ timer' = [timer EXCEPT ![i] =
                    [when |-> TimerDeadline(now, delay[i]), set |-> now,
                     fired |-> FALSE, armed |-> TRUE]]
    /\ timers' = [timers EXCEPT ![i] = @ + 1]
    /\ pc' = [pc EXCEPT ![i] = "select"]
    /\ UNCHANGED <<cfg, now, mem, b, ctxDone, res, err, delay, ret, out, predArgs,
                   attempts, completed, allFailed, predCalls, delays>>

\* line 54: the select takes case <-t.C and the loop starts over
TakeTimer(i) ==
    /\ StartAttempt(i)
    /\ timer' = [timer EXCEPT ![i] = NoTimer]
    /\ UNCHANGED <<cfg, now, mem, b, ctxDone, res, err, delay, ret, out, predArgs,
                   completed, allFailed, predCalls, delays, timers>>

\* variant: the wait does not listen to Done()
IgnoreDone(i) ==
    UNCHANGED <<cfg, now, mem, pc, b, res, err, delay, timer, ret, out, predArgs,
                hist>>

\* variant: the response is not returned with the context's error
DoneDropsResponse(i) ==
    /\ ret' = [ret EXCEPT ![i] = <<NoResponse, Canceled>>]
    /\ out' = [out EXCEPT ![i] = Outermost(ret'[i])]
    /\ pc' = [pc EXCEPT ![i] = "done"]
    /\ UNCHANGED <<cfg, now, mem, b, res, err, delay, timer, predArgs,
                   attempts, completed, allFailed, predCalls, delays, timers>>

\* lines 55-56: the select takes case <-req.Context().Done()
TakeDone(i) ==
    /\ ret' = [ret EXCEPT ![i] = <<res[i], Canceled>>]
    /\ out' = [out EXCEPT ![i] = Outermost(ret'[i])]
    /\ pc' = [pc EXCEPT ![i] = "done"]
    /\ UNCHANGED <<cfg, now, mem, b, res, err, delay, timer, predArgs,
                   attempts, completed, allFailed, predCalls, delays, timers>>

\* line 53: the select is entered with t.C ready: that case may be taken
SelectTimer(i) ==
    /\ pc[i] = "select"
    /\ timer[i].fired
    /\ TakeTimer(i)

\* line 53: the select is entered with Done() closed: that case may be taken
SelectDone(i) ==
    /\ pc[i] = "select"
    /\ ctxDone[i]
    /\ TakeDone(i)
    /\ UNCHANGED ctxDone

\* line 53: the select is entered with no case ready: the goroutine blocks
SelectPark(i) ==
    /\ pc[i] = "select"
    /\ ~timer[i].fired
    /\ ~ctxDone[i]
    /\ pc' = [pc EXCEPT ![i] = "parked"]
    /\ UNCHANGED <<cfg, now, mem, b, ctxDone, loc, hist>>

\* the runtime fires an expired timer: a send on t.C, which wakes the
\* goroutine when it is blocked in the select
TimerFire(i) ==
    /\ timer[i].armed
    /\ ~timer[i].fired
    /\ timer[i].when <= now
    /\ IF pc[i] = "parked"
       THEN TakeTimer(i)
       ELSE /\ timer' = [timer EXCEPT ![i].fired = TRUE]
            /\ UNCHANGED <<cfg, now, mem, pc, b, ctxDone, res, err, delay,
                           ret, out, predArgs, hist>>

\* the owner of the request cancels its context (or its deadline passes):
\* Done() is closed, which wakes the goroutine when it is blocked
Cancel(i) ==
    /\ pc[i] \notin {"idle", "done"}
    /\ ~ctxDone[i]
    /\ ctxDone' = [ctxDone EXCEPT ![i] = TRUE]
    /\ IF pc[i] = "parked"
       THEN TakeDone(i)
       ELSE UNCHANGED <<cfg, now, mem, pc, b, loc, hist>>

\* time passes
Tick ==
    /\ \/ now < MaxTime
       \/ \E i \in Calls : timer[i].armed /\ ~timer[i].fired /\ timer[i].when > now
    /\ now' = now + 1
    /\ UNCHANGED <<cfg, mem, pc, b, ctxDone, loc, hist>>

Next ==
    \/ \E i \in Calls, c \in BOOLEAN : RoundTrip(i, c)
    \/ \E i \in Calls, p \in TransportResults(Transport) :
          TransportReturn(i, p[1], p[2])
    \/ \E i \in Calls, rnd \in Randoms : CallNextBackOff(i, rnd)
    \/ \E i \in Calls,
          v \in {Nil, TransportErr, PredicateErr, ReadErr, DecodingErr} \X BOOLEAN :
          CallShouldRetry(i, v)
    \/ \E i \in Calls : NewTimer(i)
    \/ \E i \in Calls : SelectTimer(i)
    \/ \E i \in Calls : SelectDone(i)
    \/ \E i \in Calls : SelectPark(i)
    \/ \E i \in Calls : TimerFire(i)
    \/ \E i \in Calls : Cancel(i)
    \/ Tick

Spec == Init /\ [][Next]_vars

\* ------------------------------------------------------------- claims
InProgress(i) == pc[i] \notin {"idle", "done"}

\* RoundTrip returned from line 50, on a decision of the predicate
Decided(i) == pc[i] = "done" /\ ret[i][2] # Canceled

\* the value a policy has after n delays were drawn from it
RECURSIVE BackoffAfter(_)
BackoffAfter(n) ==
    IF n = 0 THEN Configured ELSE incrementCurrentInterval(BackoffAfter(n - 1))

\* C1: with the default predicate, when every attempt failed and the request
\* was not cancelled, a returned call has made one attempt more than the
\* number of delays its backoff yielded before Stop, and returns the last
\* attempt's error, which is not nil; two delays give three attempts.
C1_AttemptsWhenAllFail ==
    \A i \in Calls :
        (ShouldRetry = "nil" /\ pc[i] = "done" /\ allFailed[i] /\ ~ctxDone[i])
        => /\ attempts[i] = delays[i] + 1
           /\ delay[i] = Stop
           /\ ret[i] = <<res[i], err[i]>>
           /\ ret[i][2] # Nil
           /\ (delays[i] = 2 => attempts[i] = 3)

C1_Witness ==
    \E i \in Calls :
        /\ ShouldRetry = "nil" /\ pc[i] = "done" /\ allFailed[i] /\ ~ctxDone[i]
        /\ delays[i] = 2 /\ attempts[i] = 3 /\ ret[i][2] = TransportErr

\* C2: with the default predicate, a first attempt without error ends the
\* call: no timer is armed, no second attempt is started, and the call
\* returns the base transport's response with a nil error.
C2_FirstSuccessIsNoOp ==
    \A i \in Calls :
        (ShouldRetry = "nil" /\ attempts[i] = 1 /\ completed[i] = 1 /\ err[i] = Nil)
        => /\ pc[i] \in {"backoff", "check", "done"}
           /\ timers[i] = 0
           /\ (pc[i] = "done" => ret[i] = <<res[i], Nil>>)

C2_Witness ==
    \E i \in Calls :
        /\ ShouldRetry = "nil" /\ pc[i] = "done" /\ attempts[i] = 1
        /\ completed[i] = 1 /\ timers[i] = 0 /\ ret[i] = <<"200", Nil>>

\* C3: when the context is cancelled while the call is blocked in the select
\* on a timer that has not fired, the call returns at that step the last
\* attempt's response with the context's error and starts no attempt.
C3_CancelEndsWait ==
    [][\A i \in Calls :
          (pc[i] = "parked" /\ ~ctxDone[i] /\ ctxDone'[i])
          => /\ pc'[i] = "done"
             /\ ret'[i] = <<res[i], Canceled>>
             /\ attempts'[i] = attempts[i]
             /\ now' = now]_vars

\* a call that returned the context's error while its timer was pending
C3_Witness ==
    \E i \in Calls :
        /\ pc[i] = "done" /\ ret[i] = <<res[i], Canceled>> /\ ctxDone[i]
        /\ timer[i].armed /\ ~timer[i].fired /\ timer[i].when > now

\* C4: once the context of a call in progress is cancelled, the call starts
\* no further attempt.
C4_NoAttemptAfterCancel ==
    [][\A i \in Calls :
          (InProgress(i) /\ ctxDone[i]) => attempts'[i] = attempts[i]]_vars

\* C5 as stated: once NextBackOff has returned Stop and the predicate has
\* been called with lastAttempt = true, no further attempt is started,
\* whatever the predicate returned.
C5_NoAttemptAfterStop ==
    [][\A i \in Calls :
          (delay[i] = Stop /\ pc[i] \in {"timer", "select", "parked"})
          => attempts'[i] = attempts[i]]_vars

\* C5 amended: with a predicate that returns shouldRetry = false when
\* lastAttempt is true (the default one, the 5xx one, the one that replaces
\* the error), the call has returned
\* once the predicate was called after a Stop.
C5_ReturnsAfterStop ==
    \A i \in Calls :
        (/\ ShouldRetry \in {"nil", "status5xx", "replace"}
         /\ delay[i] = Stop /\ predCalls[i] = completed[i])
        => Decided(i)

C5_Witness ==
    \E i \in Calls :
        /\ ShouldRetry = "nil" /\ Decided(i) /\ delay[i] = Stop
        /\ attempts[i] = 2 /\ predCalls[i] = 2

\* C6: with two concurrent calls, the backoff value a call steps is the one
\* a call running alone has after the same number of delays, and a step of
\* the other call leaves it and the call's delay unchanged.
C6_IndependentSchedules ==
    \A i \in Calls :
        (callers = Calls /\ pc[i] # "idle")
        => /\ mem[b[i]] = BackoffAfter(delays[i])
           /\ (pc[i] = "done" /\ ~ctxDone[i] => attempts[i] = delays[i] + 1)

C6_Witness ==
    /\ callers = Calls
    /\ InProgress(1) /\ InProgress(2)
    /\ delays[1] = 2 /\ mem[b[1]].currentInterval = 4
    /\ delays[2] = 1 /\ mem[b[2]].currentInterval = 2 /\ pc[2] = "check"

\* C7: the configured policy never changes, while the copies advance.
C7_SharedPolicyUnchanged == mem[Shared] = Configured

C7_Witness ==
    /\ callers = Calls
    /\ pc[1] = "done" /\ delays[1] >= 1
    /\ InProgress(2) /\ mem[2] # Configured

\* C8: the backoff run of a call is fresh at the call's entry: no elapsed
\* time is carried over from before the call.
C8_FreshRunAtEntry ==
    [][\A i \in Calls :
          (~InProgress(i) /\ InProgress(i)')
          => GetElapsedTime(mem'[b'[i]], now') = 0]_vars

\* C9: the predicate is called once per attempt, after the attempt's call
\* of the base transport has returned.
C9_PredicateOncePerAttempt ==
    \A i \in Calls :
        /\ predCalls[i] \in {completed[i], completed[i] - 1}
        /\ completed[i] \in {attempts[i], attempts[i] - 1}
        /\ (pc[i] = "transport" => predCalls[i] = attempts[i] - 1)
        /\ (pc[i] \in {"timer", "select", "parked"} => predCalls[i] = attempts[i])
        /\ (Decided(i) => predCalls[i] = completed[i] /\ completed[i] = attempts[i])

C9_Witness ==
    \E i \in Calls :
        /\ Decided(i) /\ attempts[i] = 3 /\ predCalls[i] = 3 /\ ShouldRetry = "any"

\* C10: with no predicate supplied, the reported error is the transport's
\* and the call goes on exactly when the error is not nil and the backoff
\* did not stop; a response without error is not retried, whatever its status.
C10_DefaultDecision ==
    \A i \in Calls :
        ShouldRetry = "nil"
        => /\ (Decided(i) =>
                 /\ ret[i] = <<res[i], err[i]>>
                 /\ (err[i] = Nil \/ delay[i] = Stop))
           /\ (pc[i] \in {"timer", "select", "parked"} =>
                 err[i] # Nil /\ delay[i] # Stop)
           /\ (InProgress(i) /\ attempts[i] > completed[i] /\ completed[i] > 0 =>
                 err[i] # Nil /\ delay[i] # Stop)

C10_Witness ==
    \E i \in Calls :
        /\ ShouldRetry = "nil" /\ Decided(i) /\ attempts[i] = 1
        /\ ret[i] = <<"500", Nil>> /\ delay[i] # Stop

\* C11: with the predicate that retries on a 5xx status unless lastAttempt,
\* and no cancellation, the call goes on after an attempt exactly when that
\* attempt answered 5xx and the backoff did not stop; it has returned after
\* the first attempt that answered something else or got Stop.
C11_RetriesWhile5xx ==
    \A i \in Calls :
        (ShouldRetry = "status5xx" /\ ~ctxDone[i])
        => /\ (pc[i] \in {"timer", "select", "parked"} =>
                 res[i] = "500" /\ delay[i] # Stop)
           /\ (InProgress(i) /\ attempts[i] > completed[i] /\ completed[i] > 0 =>
                 res[i] = "500" /\ delay[i] # Stop)
           /\ (pc[i] = "done" =>
                 /\ res[i] # "500" \/ delay[i] = Stop
                 /\ ret[i] = <<res[i], err[i]>>)
           /\ (predCalls[i] = completed[i] /\ completed[i] > 0
                 /\ (res[i] # "500" \/ delay[i] = Stop) => pc[i] = "done")

C11_Witness ==
    \E i \in Calls :
        /\ ShouldRetry = "status5xx" /\ ~ctxDone[i] /\ pc[i] = "done"
        /\ attempts[i] = 3 /\ ret[i] = <<"200", Nil>> /\ delay[i] # Stop

\* C12: the step on which the predicate returns shouldRetry = false is the
\* step on which RoundTrip returns, with the response of the attempt just
\* made and the error the predicate returned for it, which need not be the
\* transport's; no timer is armed and no attempt made in between.
C12_ReturnsPredicateError ==
    [][\A i \in Calls :
          (pc[i] = "check" /\ pc'[i] # "check")
          => LET results == ShouldRetryResults(ShouldRetry, res[i], err[i],
                                               lastAttempt(i))
             IN  \/ /\ pc'[i] = "done"
                    /\ ret'[i][1] = res[i]
                    /\ <<ret'[i][2], FALSE>> \in results
                    /\ timers'[i] = timers[i] /\ attempts'[i] = attempts[i]
                 \/ /\ pc'[i] = "timer"
                    /\ \E e \in {x[1] : x \in results} : <<e, TRUE>> \in results
                    /\ ret'[i] = NoRet]_vars

C12_Witness ==
    \E i \in Calls :
        /\ ShouldRetry = "replace" /\ Decided(i)
        /\ err[i] = TransportErr /\ ret[i] = <<res[i], PredicateErr>>

\* C13: a call has at most one attempt in flight: the attempts started exceed
\* the attempts returned by one while the base transport is being called and
\* by none otherwise, and an attempt starts only when all earlier ones of the
\* call have returned.
C13_OneAttemptInFlight ==
    [][\A i \in Calls :
          /\ attempts[i] - completed[i] = IF pc[i] = "transport" THEN 1 ELSE 0
          /\ (attempts'[i] = attempts[i] + 1 => completed[i] = attempts[i])]_vars

C13_Witness ==
    \E i \in Calls :
        pc[i] = "transport" /\ attempts[i] = 3 /\ completed[i] = 2

\* C14: each call of the predicate is made with the response and the error
\* the base transport returned for the attempt, both of them also when both
\* are non-nil, and with lastAttempt true exactly when the NextBackOff call
\* made after the attempt returned Stop.
C14_PredicateArguments ==
    [][\A i \in Calls :
          /\ (predCalls'[i] = predCalls[i] + 1 =>
                /\ pc[i] = "check" /\ predCalls[i] = completed[i] - 1
                /\ predArgs'[i] = <<res[i], err[i], delay[i] = Stop>>)
          /\ (predCalls[i] = completed[i] /\ completed[i] > 0 =>
                predArgs[i] = <<res[i], err[i], delay[i] = Stop>>)]_vars

C14_Witness ==
    \E i \in Calls :
        /\ predCalls[i] = 2 /\ completed[i] = 2
        /\ predArgs[i] = <<"500", TransportErr, TRUE>> /\ delay[i] = Stop

\* C15 as stated: in both layerings a decoding error of the JSON transport
\* never makes the retry loop start another attempt: while a call holds a
\* decoding error as the error of its attempt, its number of attempts stays.
C15_DecodingErrorNotRetried ==
    [][\A i \in Calls :
          (InProgress(i) /\ DecodingErr \in {err[i], out[i][2]})
          => attempts'[i] = attempts[i]]_vars

\* C15 amended: when json.Transport wraps the retry transport, the decoding
\* error arises after the retry loop has returned without error and is what
\* the client gets; when the retry transport with the default predicate wraps
\* json.Transport, the decoding error is the error of the attempt and is
\* retried as any other, and returned to the client once the backoff stops.
C15_DecodingErrorByLayering ==
    \A i \in Calls :
        /\ outer = "json" =>
             /\ out[i][2] = DecodingErr
                  <=> (pc[i] = "done" /\ ret[i] = <<"200 bad json", Nil>>)
             /\ (pc[i] \in {"timer", "select", "parked"} => err[i] = TransportErr)
        /\ Transport = "json" =>
             /\ (pc[i] \in {"backoff", "check", "timer", "select", "parked", "done"}
                 => (err[i] = DecodingErr <=> res[i] = "200 bad json"))
             /\ (err[i] = DecodingErr /\ predCalls[i] = completed[i]
                 /\ delay[i] # Stop => ~Decided(i))
             /\ (err[i] = DecodingErr /\ Decided(i) =>
                   /\ delay[i] = Stop
                   /\ out[i] = <<"200 bad json", DecodingErr>>)

C15_Witness ==
    \E i \in Calls :
        /\ Transport = "json" /\ ShouldRetry = "nil" /\ Decided(i)
        /\ attempts[i] = 3 /\ allFailed[i]
        /\ out[i] = <<"200 bad json", DecodingErr>>

\* C16: the next attempt of a call starts only from the wait, on a timer
\* that was armed with the delay NextBackOff returned after the attempt
\* before and that has run for that delay.
C16_WaitsForDelay ==
    [][\A i \in Calls :
          (InProgress(i) /\ attempts'[i] = attempts[i] + 1)
          => /\ pc[i] \in {"select", "parked"}
             /\ timer[i].armed /\ timers[i] = attempts[i]
             /\ timer[i].when = timer[i].set + delay[i]
             /\ now >= timer[i].set + delay[i]]_vars

C16_Witness ==
    \E i \in Calls :
        /\ pc[i] = "transport" /\ attempts[i] = 2 /\ ~ctxDone[i]
        /\ delay[i] = 1 /\ now = 1

\* C17: with a predicate that asks to retry on every attempt, a call whose
\* request is not cancelled has not returned, however often the backoff
\* returned Stop: after each predicate call it is at the timer or in the
\* wait, and a timer armed with Stop is due before it is armed, so that the
\* next attempt needs no time to pass.
C17_BusyLoopAfterStop ==
    \A i \in Calls :
        ShouldRetry = "always"
        => /\ (pc[i] = "done" => ctxDone[i] /\ ret[i] = <<res[i], Canceled>>)
           /\ (predCalls[i] = attempts[i] /\ attempts[i] > 0 /\ ~ctxDone[i] =>
                 pc[i] \in {"timer", "select", "parked"})
           /\ (timer[i].armed /\ delay[i] = Stop =>
                 timer[i].when < timer[i].set /\ timer[i].set <= now)

C17_Witness ==
    \E i \in Calls :
        /\ ShouldRetry = "always" /\ ~ctxDone[i] /\ pc[i] = "transport"
        /\ delay[i] = Stop /\ timers[i] = delays[i] + 2
        /\ now = MaxElapsedTime + 1

\* C18: a call returns either on the predicate's shouldRetry = false, with
\* the attempt's response and the predicate's error, also when the context
\* is done by then; or from the wait that follows a predicate call asking to
\* retry, on Done(), with the last attempt's response and the context's
\* error.  It returns in no other way, and a returned call has a pair.
C18_TwoWaysToReturn ==
    [][\A i \in Calls :
          /\ (pc[i] = "done" => ret[i] # NoRet)
          /\ (InProgress(i) /\ pc'[i] = "done") =>
               \/ /\ pc[i] = "check"
                  /\ ret'[i][1] = res[i]
                  /\ <<ret'[i][2], FALSE>> \in
                        ShouldRetryResults(ShouldRetry, res[i], err[i],
                                           lastAttempt(i))
               \/ /\ pc[i] \in {"select", "parked"}
                  /\ predCalls[i] = attempts[i]
                  /\ ctxDone'[i]
                  /\ ret'[i] = <<res[i], Canceled>>]_vars

C18_Witness ==
    \E i \in Calls :
        /\ pc[i] = "done" /\ ctxDone[i] /\ timers[i] = 0
        /\ ret[i] = <<"200", Nil>> /\ predCalls[i] = 1

\* C20: a call whose first attempt has not returned is calling the base
\* transport, whether or not its context is done, and a call that has
\* returned has had at least one attempt return and its predicate called;
\* the context's error is returned only after a timer was armed.
C20_AtLeastOneAttempt ==
    \A i \in Calls :
        /\ (attempts[i] > 0 /\ completed[i] = 0 => pc[i] = "transport")
        /\ (pc[i] = "done" => completed[i] >= 1 /\ predCalls[i] >= 1)
        /\ (pc[i] = "done" /\ ret[i][2] = Canceled => timers[i] >= 1)

C20_Witness ==
    \E i \in Calls :
        /\ pc[i] = "done" /\ ret[i] = <<"500", Canceled>> /\ now = 0
        /\ attempts[i] = 1 /\ completed[i] = 1 /\ timers[i] = 1

\* the scenarios of one caller that leave t.ShouldRetry nil: over any base
\* transport, over json.Transport, and under json.Transport
DefaultInit == Init /\ ShouldRetry = "nil" /\ callers = {1}

\* every call of the base transport returns, the goroutine of a call that
\* can take a step takes one, a timer that is due fires, and time passes
Fairness ==
    /\ WF_vars(Tick)
    /\ \A i \in Calls :
          /\ WF_vars(\E p \in TransportResults(Transport) :
                        TransportReturn(i, p[1], p[2]))
          /\ WF_vars(\E rnd \in Randoms : CallNextBackOff(i, rnd))
          /\ WF_vars(\E v \in (Errors \cup {ReadErr, DecodingErr}) \X BOOLEAN :
                        CallShouldRetry(i, v))
          /\ WF_vars(NewTimer(i))
          /\ WF_vars(SelectTimer(i) \/ SelectDone(i) \/ SelectPark(i))
          /\ WF_vars(TimerFire(i))

FairSpec == DefaultInit /\ [][Next]_vars /\ Fairness

\* C19: with the default predicate, a call that has been entered eventually
\* returns, whether or not its request is cancelled, when every call of the
\* base transport returns, due timers fire and time passes.
C19_EventuallyReturns ==
    \A i \in Calls : InProgress(i) ~> pc[i] = "done"

C19_Witness ==
    \E i \in Calls :
        /\ ShouldRetry = "nil" /\ Transport = "any" /\ pc[i] = "done"
        /\ ret[i] = <<"500", TransportErr>> /\ delay[i] = Stop
        /\ ctxDone[i] /\ attempts[i] = 4

====
